---- MODULE Spec2Model ----
(***************************************************************************)
(* Model of preproc.py: the offer-transcript pre-processing pipeline.      *)
(*                                                                         *)
(* State: the three data files the functions read (data/transcript.json,   *)
(* data/portfolio.json, data/profile.json), the expiration cache file      *)
(* data/expiration_times.csv, and the outcome of the last call.            *)
(* Operations: get_offers_transcript and get_dataset.  The data files are  *)
(* inputs; the cache file is the only state the program itself writes.     *)
(***************************************************************************)
EXTENDS Integers, Sequences, FiniteSets

VARIABLES transcript,        \* rows of data/transcript.json, in file order
          cache,             \* data/expiration_times.csv: Absent or its lines
          op,                \* the last call: "none", "offers" or "dataset"
          hit,               \* the last call found the cache file
          expiration_times,  \* the series the last call got from get_expiration_times
          out                \* the last call's outcome: [status, rows]

vars == <<transcript, cache, op, hit, expiration_times, out>>

----------------------------------------------------------------------------
(* Bounds of the model *)

MaxLen == 3
MaxTime == 1
MaxJoinLen == 2

----------------------------------------------------------------------------
(* Input data *)

HoursPerDay == 24

\* data/portfolio.json: the offer catalog, duration in days
PortfolioJson == {[id |-> "o1", duration |-> 1]}

\* data/profile.json: the user registry
ProfileJson == {[id |-> "u1", age |-> 30]}

\* users and offers the transcript refers to; "u2" is not in the registry,
\* "o9" is not in the catalog
Persons == {"u1", "u2"}
CatalogOffers == {r.id : r \in PortfolioJson}
UnknownOffers == {"o9"}
Times == 0..MaxTime

\* the `value` payload of a raw event: a dict, as its sequence of (key, value) items
OfferValue(ev, o) ==
    IF ev = "offer completed"
    THEN << <<"offer_id", o>>, <<"reward", "r">> >>
    ELSE << <<"offer id", o>> >>

OfferEventsOver(P, O) ==
    {[person |-> p, event |-> ev, value |-> OfferValue(ev, o), time |-> t] :
        p \in P, ev \in {"offer received", "offer viewed", "offer completed"},
        o \in O, t \in Times}

TransactionEvents ==
    {[person |-> "u1", event |-> "transaction",
      value |-> << <<"amount", "a">> >>, time |-> 0]}

RawEvents == OfferEventsOver(Persons, CatalogOffers) \cup TransactionEvents
JoinEvents == OfferEventsOver(Persons, CatalogOffers \cup UnknownOffers)

SeqsUpTo(S, n) == UNION {[1..k -> S] : k \in 0..n}

Transcripts == SeqsUpTo(RawEvents, MaxLen)
JoinTranscripts == SeqsUpTo(JoinEvents, MaxJoinLen)

----------------------------------------------------------------------------
(* Helpers *)

\* an unset cell
NaN == -1

\* the cache file: absent, or present with its lines
Absent == [exists |-> FALSE, lines |-> <<>>]
Present(lines) == [exists |-> TRUE, lines |-> lines]

RECURSIVE SumOver(_, _)
SumOver(S, f) ==
    IF S = {} THEN 0
    ELSE LET x == CHOOSE y \in S : TRUE IN f[x] + SumOver(S \ {x}, f)

MaxOf(S) == CHOOSE x \in S : \A y \in S : y <= x
MinOf(S) == CHOOSE x \in S : \A y \in S : x <= y

\* the elements of a finite set of integers in ascending order
RECURSIVE Ascending(_)
Ascending(S) ==
    IF S = {} THEN <<>>
    ELSE <<MinOf(S)>> \o Ascending(S \ {MinOf(S)})

----------------------------------------------------------------------------
(* get_portfolio, get_profile *)

\* get_portfolio: `id` renamed offer_id, `duration` in hours renamed duration_hs
get_portfolio ==
    {[offer_id |-> r.id, duration_hs |-> r.duration * HoursPerDay] : r \in PortfolioJson}

\* get_profile: `id` renamed profile_id
get_profile ==
    {[profile_id |-> r.id, age |-> r.age] : r \in ProfileJson}

----------------------------------------------------------------------------
(* get_offers_transcript, up to the de-duplicated offer events *)

\* the cleaned event label
EventLabel(ev) ==
    CASE ev = "offer received" -> "offer_received"
      [] ev = "offer viewed" -> "offer_viewed"
      [] ev = "offer completed" -> "offer_completed"

\* the first value of the payload dict
OfferIdOf(value) == value[1][2]

\* the row of the offers frame made from raw row i (1-based position in the file)
OfferRow(X, i) ==
    [profile_id |-> X[i].person,
     offer_id |-> OfferIdOf(X[i].value),
     event |-> EventLabel(X[i].event),
     time |-> X[i].time]

\* positions of the rows that are not transactions
NotTransaction(X) == {i \in 1..Len(X) : X[i].event # "transaction"}

\* drop_duplicates keeps the first of each set of identical rows
DropDuplicates(X) ==
    {i \in NotTransaction(X) :
        \A j \in NotTransaction(X) : j < i => OfferRow(X, j) # OfferRow(X, i)}

\* the de-duplicated offer events, keyed by the row label of the raw frame
\* (a RangeIndex: position - 1); filtering and de-duplication keep the labels
OffersFrame(X) ==
    [k \in {i - 1 : i \in DropDuplicates(X)} |-> OfferRow(X, k + 1)]

----------------------------------------------------------------------------
(* get_expiration_times *)

\* offers_duration: Series of duration_hs indexed by offer_id
offers_duration ==
    [o \in {r.offer_id : r \in get_portfolio} |->
        (CHOOSE r \in get_portfolio : r.offer_id = o).duration_hs]

\* the query: receptions of the same offer by the same profile, not later than
\* the event
offers_reception(frame, offer) ==
    {k \in DOMAIN frame :
        /\ frame[k].profile_id = offer.profile_id
        /\ frame[k].offer_id = offer.offer_id
        /\ frame[k].event = "offer_received"
        /\ frame[k].time <= offer.time}

\* a reading of the first element of an empty array, or of a missing key, raises
Raised == -2

\* variant: the earliest reception (sort ascending)
first_offer_reception_time(frame, offer) ==
    IF offers_reception(frame, offer) = {} THEN Raised
    ELSE MinOf({frame[k].time : k \in offers_reception(frame, offer)})

\* variant: an event without a reception counts from its own time
own_time_when_orphan(frame, offer) ==
    IF offers_reception(frame, offer) = {} THEN offer.time
    ELSE MaxOf({frame[k].time : k \in offers_reception(frame, offer)})

\* sort by time descending, first value; IndexError when the query is empty
last_offer_reception_time(frame, offer) ==
    IF offers_reception(frame, offer) = {} THEN Raised
    ELSE MaxOf({frame[k].time : k \in offers_reception(frame, offer)})

\* the body of the loop for one row: its expiration, or Raised
expiration(frame, offer) ==
    IF offer.event = "offer_received"
    THEN IF offer.offer_id \in DOMAIN offers_duration
         THEN offers_duration[offer.offer_id] + offer.time
         ELSE Raised
    ELSE IF last_offer_reception_time(frame, offer) = Raised THEN Raised
         ELSE IF offer.offer_id \in DOMAIN offers_duration
              THEN offers_duration[offer.offer_id]
                       + last_offer_reception_time(frame, offer)
              ELSE Raised

\* decimal text of a non-negative integer, as its sequence of digits
RECURSIVE Digits(_)
Digits(n) == IF n < 10 THEN <<n>> ELSE Digits(n \div 10) \o <<n % 10>>

RECURSIVE Number(_)
Number(d) ==
    IF Len(d) = 1 THEN d[1]
    ELSE 10 * Number(SubSeq(d, 1, Len(d) - 1)) + d[Len(d)]

\* Series.to_csv: one line (index, value) per row, in frame order
\* (the header line is left out)
to_csv(series) ==
    LET idx == Ascending(DOMAIN series)
    IN [n \in 1..Len(idx) |-> <<Digits(idx[n]), Digits(series[idx[n]])>>]

\* variant: the first column is not taken as the index, rows are numbered anew
read_csv_positional(lines) ==
    [k \in 0..(Len(lines) - 1) |-> Number(lines[k + 1][2])]

\* read_csv(index_col=0).squeeze("columns"): the series keyed by the first column
read_csv(lines) ==
    [k \in {Number(lines[n][1]) : n \in 1..Len(lines)} |->
        Number(lines[CHOOSE n \in 1..Len(lines) : Number(lines[n][1]) = k][2])]

\* get_expiration_times: [ok, series, cache] for the frame and the cache file found
get_expiration_times(frame, file) ==
    IF file.exists
    THEN [ok |-> TRUE, series |-> read_csv(file.lines), cache |-> file]
    ELSE IF \E k \in DOMAIN frame : expiration(frame, frame[k]) = Raised
         THEN [ok |-> FALSE, series |-> <<>>, cache |-> Absent]
         ELSE LET s == [k \in DOMAIN frame |-> expiration(frame, frame[k])]
              IN [ok |-> TRUE, series |-> s, cache |-> Present(to_csv(s))]

----------------------------------------------------------------------------
(* get_offers_transcript: the expiration column and the pivot *)

\* offers_transcript['offer_expiration'] = expiration_times: aligned on the row
\* label; a row whose label the series lacks gets NaN
offer_expiration(frame, series) ==
    [k \in DOMAIN frame |-> IF k \in DOMAIN series THEN series[k] ELSE NaN]

\* the rows of one (profile_id, offer_id, offer_expiration) group
Group(frame, col, key) ==
    {k \in DOMAIN frame :
        /\ frame[k].profile_id = key[1]
        /\ frame[k].offer_id = key[2]
        /\ col[k] = key[3]}

\* the index of the pivot: the groups; a row with a NaN key is in no group
GroupKeys(frame, col) ==
    {<<frame[k].profile_id, frame[k].offer_id, col[k]>> :
        k \in {j \in DOMAIN frame : col[j] # NaN}}

\* a cell of the pivot: the aggregate of `time` over the events of one type in
\* the group, kept as the exact fraction sum / n; n = 0 is an unset cell
Unset == [sum |-> 0, n |-> 0]

\* aggfunc is left at its default, the mean
mean_cell(frame, rows) ==
    IF rows = {} THEN Unset
    ELSE [sum |-> SumOver(rows, [k \in rows |-> frame[k].time]),
          n |-> Cardinality(rows)]

OfType(frame, rows, ev) == {k \in rows : frame[k].event = ev}

\* pd.pivot_table(values='time', index=[profile_id, offer_id, offer_expiration],
\* columns='event') and reset_index
pivot_table(frame, col) ==
    {[profile_id |-> key[1],
      offer_id |-> key[2],
      offer_expiration |-> key[3],
      offer_received |->
          mean_cell(frame, OfType(frame, Group(frame, col, key), "offer_received")),
      offer_viewed |->
          mean_cell(frame, OfType(frame, Group(frame, col, key), "offer_viewed")),
      offer_completed |->
          mean_cell(frame, OfType(frame, Group(frame, col, key), "offer_completed"))] :
        key \in GroupKeys(frame, col)}

\* get_offers_transcript on raw rows X with the cache file found:
\* [ok, rows, series, cache]
get_offers_transcript(X, file) ==
    LET frame == OffersFrame(X)
        e == get_expiration_times(frame, file)
    IN IF e.ok
       THEN [ok |-> TRUE,
             rows |-> pivot_table(frame, offer_expiration(frame, e.series)),
             series |-> e.series, cache |-> e.cache]
       ELSE [ok |-> FALSE, rows |-> {}, series |-> <<>>, cache |-> e.cache]

\* get_dataset: inner join with the profiles on profile_id, then with the
\* portfolio on offer_id
get_dataset(X, file) ==
    LET t == get_offers_transcript(X, file)
    IN IF t.ok
       THEN [ok |-> TRUE,
             rows |-> {[instance |-> m[1], age |-> m[2].age,
                        duration_hs |-> m[3].duration_hs] :
                          m \in {n \in t.rows \X get_profile \X get_portfolio :
                                    /\ n[2].profile_id = n[1].profile_id
                                    /\ n[3].offer_id = n[1].offer_id}},
             series |-> t.series, cache |-> t.cache]
       ELSE t

----------------------------------------------------------------------------
(* The state machine *)

NoOutcome == [status |-> "none", rows |-> {}]

Outcome(r) == [status |-> IF r.ok THEN "ok" ELSE "error", rows |-> r.rows]

Start(X) ==
    /\ transcript = X
    /\ cache = Absent
    /\ op = "none"
    /\ hit = FALSE
    /\ expiration_times = <<>>
    /\ out = NoOutcome

Init == \E X \in Transcripts : Start(X)

InitJoin == \E X \in JoinTranscripts : Start(X)

\* a call of get_offers_transcript
GetOffersTranscript ==
    LET r == get_offers_transcript(transcript, cache)
    IN /\ op' = "offers"
       /\ hit' = cache.exists
       /\ cache' = r.cache
       /\ expiration_times' = r.series
       /\ out' = Outcome(r)
       /\ UNCHANGED transcript

\* a call of get_dataset
GetDataset ==
    LET r == get_dataset(transcript, cache)
    IN /\ op' = "dataset"
       /\ hit' = cache.exists
       /\ cache' = r.cache
       /\ expiration_times' = r.series
       /\ out' = Outcome(r)
       /\ UNCHANGED transcript

\* data/transcript.json gets one more record
AppendRecord ==
    /\ Len(transcript) < MaxLen
    /\ \E e \in RawEvents : transcript' = Append(transcript, e)
    /\ op' = "none" /\ hit' = FALSE /\ expiration_times' = <<>> /\ out' = NoOutcome
    /\ UNCHANGED cache

\* data/transcript.json is replaced by an empty log
NewTranscript ==
    /\ transcript # <<>>
    /\ transcript' = <<>>
    /\ op' = "none" /\ hit' = FALSE /\ expiration_times' = <<>> /\ out' = NoOutcome
    /\ UNCHANGED cache

\* the calls, on data files that do not change
Next == GetOffersTranscript \/ GetDataset

Spec == Init /\ [][Next]_vars

\* the calls on a transcript that refers to users and offers the reference
\* tables lack
SpecJoin == InitJoin /\ [][Next]_vars

\* the calls, with the transcript file changing between them
NextData == GetOffersTranscript \/ GetDataset \/ AppendRecord \/ NewTranscript

SpecData == Init /\ [][NextData]_vars

----------------------------------------------------------------------------
(* Properties *)

\* the de-duplicated offer events of the current transcript
Frame == OffersFrame(transcript)

\* the cache file the last call found (an existing file is never rewritten)
Found == IF hit THEN cache ELSE Absent

\* the last call computed the expirations itself and succeeded
Computed == op # "none" /\ ~hit /\ out.status = "ok"

\* the offer's canonical duration: 24 x the catalog duration in days
CanonicalDuration(o) ==
    HoursPerDay * (CHOOSE r \in PortfolioJson : r.id = o).duration

\* k is a reception that qualifies for event e
Qualifies(k, e) ==
    /\ Frame[k].event = "offer_received"
    /\ Frame[k].profile_id = e.profile_id
    /\ Frame[k].offer_id = e.offer_id
    /\ Frame[k].time <= e.time

\* an offer_viewed / offer_completed event without a qualifying reception
Orphan(k) ==
    /\ Frame[k].event # "offer_received"
    /\ ~ \E r \in DOMAIN Frame : Qualifies(r, Frame[k])

\* the expiration column of the frame in the last call
Column == offer_expiration(Frame, expiration_times)

\* the events of one output row's group
RowGroup(r) ==
    {k \in DOMAIN Frame :
        /\ Frame[k].profile_id = r.profile_id
        /\ Frame[k].offer_id = r.offer_id
        /\ Column[k] = r.offer_expiration}

\* cell a <= cell b, as fractions
CellLeq(a, b) == a.sum * b.n <= b.sum * a.n

\* C1: when get_expiration_times computes (cache absent), every offer_received
\* event gets its own time + duration_hs, and every offer_viewed / offer_completed
\* event gets r.time + duration_hs for the qualifying reception r (same profile
\* and offer, time <= the event's) with the largest time.
C1_NearestPrecedingReception ==
    Computed =>
        /\ DOMAIN expiration_times = DOMAIN Frame
        /\ \A k \in DOMAIN Frame :
              IF Frame[k].event = "offer_received"
              THEN expiration_times[k] =
                       Frame[k].time + CanonicalDuration(Frame[k].offer_id)
              ELSE \E r \in DOMAIN Frame :
                      /\ Qualifies(r, Frame[k])
                      /\ \A q \in DOMAIN Frame :
                            Qualifies(q, Frame[k]) => Frame[q].time <= Frame[r].time
                      /\ expiration_times[k] =
                             Frame[r].time + CanonicalDuration(Frame[k].offer_id)

\* C1 witness: two receptions of one offer by one profile at different times and
\* a later completion, which got the later reception's time + duration.
C1_Witness ==
    /\ Computed
    /\ \E k, r1, r2 \in DOMAIN Frame :
          /\ Frame[k].event = "offer_completed"
          /\ Qualifies(r1, Frame[k]) /\ Qualifies(r2, Frame[k])
          /\ Frame[r1].time < Frame[r2].time
          /\ expiration_times[k] =
                 Frame[r2].time + CanonicalDuration(Frame[k].offer_id)

\* C3: in the get_offers_transcript output, each of the three event columns of
\* a row is set iff the row's group holds an event of that type, and a set
\* column equals the time of an event of that type in the group.
C3_ColumnIsAnEventTime ==
    (op = "offers" /\ out.status = "ok") =>
        \A r \in out.rows :
            \A c \in {<<"offer_received", r.offer_received>>,
                      <<"offer_viewed", r.offer_viewed>>,
                      <<"offer_completed", r.offer_completed>>} :
                LET evs == {k \in RowGroup(r) : Frame[k].event = c[1]}
                IN /\ (c[2].n > 0) <=> (evs # {})
                   /\ (c[2].n > 0) =>
                          \E k \in evs : c[2].sum = Frame[k].time * c[2].n

\* C5: a call that reads the cache persisted by an earlier call on the same
\* transcript gets, for every row label, the value a fresh computation on
\* that transcript produces.
C5_CacheRoundTrip ==
    (op # "none" /\ hit) =>
        /\ get_expiration_times(Frame, Absent).ok
        /\ expiration_times = get_expiration_times(Frame, Absent).series

\* C5 witness: a call that read the cache for a frame whose row labels have a
\* gap (a transaction or a duplicate was dropped before a kept row).
C5_Witness ==
    /\ op # "none" /\ hit
    /\ \E k \in DOMAIN Frame : k > 0 /\ (k - 1) \notin DOMAIN Frame
    /\ \E k \in DOMAIN Frame : Frame[k].event # "offer_received"

\* C6: get_dataset never fails on a join mismatch: it completes and returns
\* exactly the offer instances whose profile is in the registry and whose
\* offer is in the catalog.
C6_JoinMismatchIsNoError ==
    (op = "dataset" /\ ~ \E k \in DOMAIN Frame : Orphan(k)) =>
        /\ out.status = "ok"
        /\ {r.instance : r \in out.rows} =
               {i \in pivot_table(Frame, Column) :
                   /\ i.profile_id \in {p.id : p \in ProfileJson}
                   /\ i.offer_id \in {o.id : o \in PortfolioJson}}

\* C10: when the de-duplicated log holds an offer_viewed / offer_completed
\* event without a qualifying reception and the cache is absent, the call
\* ends with an error, produces no table, and the cache stays absent.
C10_OrphanRaises ==
    (op # "none" /\ ~hit /\ \E k \in DOMAIN Frame : Orphan(k)) =>
        /\ out.status = "error"
        /\ out.rows = {}
        /\ ~cache.exists

\* C10 witness: a call on a log with an orphan and, besides it, a reception
\* that would have been persisted.
C10_Witness ==
    /\ op = "offers" /\ ~hit /\ out.status = "error"
    /\ \E k \in DOMAIN Frame : Orphan(k)
    /\ \E k \in DOMAIN Frame : Frame[k].event = "offer_received"

\* the transcript without its row at position j
RemoveAt(X, j) == SubSeq(X, 1, j - 1) \o SubSeq(X, j + 1, Len(X))

\* position j holds a second copy of an earlier offer event
SecondCopy(X, j) ==
    /\ X[j].event # "transaction"
    /\ \E i \in 1..(j - 1) :
          X[i].event # "transaction" /\ OfferRow(X, i) = OfferRow(X, j)

\* C2: in every row of the get_offers_transcript output, offer_expiration is
\* the row's offer_received time plus the offer's canonical duration.
C2_ExpirationIsReceptionPlusDuration ==
    (op = "offers" /\ out.status = "ok") =>
        \A r \in out.rows :
            r.offer_received.n > 0 =>
                r.offer_received.sum =
                    (r.offer_expiration - CanonicalDuration(r.offer_id))
                        * r.offer_received.n

C7_ReceptionFirst ==
    (op = "offers" /\ out.status = "ok") =>
        \A r \in out.rows :
            /\ r.offer_received.n > 0
            /\ r.offer_viewed.n > 0 => CellLeq(r.offer_received, r.offer_viewed)
            /\ r.offer_completed.n > 0 => CellLeq(r.offer_received, r.offer_completed)

\* C8: no two rows of the get_offers_transcript output share (profile_id,
\* offer_id, offer_expiration), and no row holds two receptions of the same
\* offer by the same profile at different times.
C8_KeyUnique ==
    (op = "offers" /\ out.status = "ok") =>
        /\ \A r1, r2 \in out.rows :
              (/\ r1.profile_id = r2.profile_id
               /\ r1.offer_id = r2.offer_id
               /\ r1.offer_expiration = r2.offer_expiration) => r1 = r2
        /\ \A r \in out.rows :
              \A k1, k2 \in RowGroup(r) :
                  (/\ Frame[k1].event = "offer_received"
                   /\ Frame[k2].event = "offer_received") =>
                      Frame[k1].time = Frame[k2].time

\* C9: a second copy of an offer event in the raw transcript does not change
\* the get_offers_transcript output: it is the output for the transcript
\* without the copy.
C9_DuplicateCollapse ==
    op = "offers" =>
        \A j \in 1..Len(transcript) :
            SecondCopy(transcript, j) =>
                out = Outcome(get_offers_transcript(RemoveAt(transcript, j), Found))

====
